---- MODULE Spec2Model ----
(***************************************************************************)
(* Error variants and retry classification of jp-go-errors.                *)
(*                                                                         *)
(* An error value is a sequence of nodes.  The head is the error itself;   *)
(* the tail is the value of its cause field (Err, LastError, or the error  *)
(* a Wrap layer annotates).  <<>> is the nil error.  Text is a sequence of *)
(* one-character strings so that formatting, lower-casing and substring    *)
(* search are computed, not assumed.                                       *)
(***************************************************************************)
EXTENDS Integers, Sequences, FiniteSets, TLC

VARIABLES
    err,      \* the error value the caller holds (<<>> is nil)
    pc,       \* "build" while the caller constructs err, then the question asked last,
              \* "done" once all four entry points have answered
    verdict,  \* what the four classification entry points returned for err
    call,     \* the constructor call that made err and the options applied to it since
    procs     \* the classification calls that processes have running on err, and the
              \* target variables those calls declared

vars == <<err, pc, verdict, call, procs>>

(***************************************************************************)
(* Bounds                                                                  *)
(***************************************************************************)
\* longest cause nesting the caller builds
MaxDepth == 3
\* most options the caller applies to one error
MaxOpts == 2
\* processes that classify one shared error at the same time
NumProcs == 2

(***************************************************************************)
(* Text                                                                    *)
(***************************************************************************)
\* "rate limit": the substring IsRetryable searches the lower-cased message for
T_rate_limit ==
    <<"r", "a", "t", "e", " ", "l", "i", "m", "i", "t">>
\* ": ": separator written between a message and its cause
T_sep ==
    <<":", " ">>
\* "<nil>": %v of a nil Value
T_nil ==
    <<"<", "n", "i", "l", ">">>
\* "context deadline exceeded": message of context.DeadlineExceeded
T_deadline ==
    <<"c", "o", "n", "t", "e", "x", "t", " ", "d", "e", "a", "d", "l", "i", "n", "e", " ", "e", "x", "c", "e", "e", "d", "e", "d">>
\* "context canceled": message of context.Canceled
T_canceled ==
    <<"c", "o", "n", "t", "e", "x", "t", " ", "c", "a", "n", "c", "e", "l", "e", "d">>
\* "rate limited": message of ErrRateLimited
T_rate_limited ==
    <<"r", "a", "t", "e", " ", "l", "i", "m", "i", "t", "e", "d">>
\* "network timeout": message of ErrNetworkTimeout
T_network_timeout ==
    <<"n", "e", "t", "w", "o", "r", "k", " ", "t", "i", "m", "e", "o", "u", "t">>
\* "server error": message of ErrServerError
T_server_error ==
    <<"s", "e", "r", "v", "e", "r", " ", "e", "r", "r", "o", "r">>
\* "connection error": message of ErrConnectionError
T_connection_error ==
    <<"c", "o", "n", "n", "e", "c", "t", "i", "o", "n", " ", "e", "r", "r", "o", "r">>
\* "database deadlock": message of ErrDeadlock
T_deadlock ==
    <<"d", "a", "t", "a", "b", "a", "s", "e", " ", "d", "e", "a", "d", "l", "o", "c", "k">>
\* "circuit breaker open": message of ErrCircuitOpen
T_circuit_open ==
    <<"c", "i", "r", "c", "u", "i", "t", " ", "b", "r", "e", "a", "k", "e", "r", " ", "o", "p", "e", "n">>
\* "invalid response": message of ErrInvalidResponse
T_invalid_response ==
    <<"i", "n", "v", "a", "l", "i", "d", " ", "r", "e", "s", "p", "o", "n", "s", "e">>
\* "retry attempts exhausted": message of ErrRetryExhausted
T_retry_exhausted ==
    <<"r", "e", "t", "r", "y", " ", "a", "t", "t", "e", "m", "p", "t", "s", " ", "e", "x", "h", "a", "u", "s", "t", "e", "d">>
\* "boom": an untyped message without the rate-limit text
T_boom ==
    <<"b", "o", "o", "m">>
\* "API Rate Limit hit": an untyped message with the rate-limit text in mixed case
T_api_limit ==
    <<"A", "P", "I", " ", "R", "a", "t", "e", " ", "L", "i", "m", "i", "t", " ", "h", "i", "t">>
\* "dial tcp: i/o timeout": message of a net.OpError
T_dial ==
    <<"d", "i", "a", "l", " ", "t", "c", "p", ":", " ", "i", "/", "o", " ", "t", "i", "m", "e", "o", "u", "t">>
\* "busy": message of an externally defined self-reporting error
T_busy ==
    <<"b", "u", "s", "y">>
\* "bad": a Message argument
T_bad ==
    <<"b", "a", "d">>
\* "Fetch": an Operation argument
T_op ==
    <<"F", "e", "t", "c", "h">>
\* "email": a Field argument
T_field ==
    <<"e", "m", "a", "i", "l">>
\* "item-1": an ItemID argument
T_item ==
    <<"i", "t", "e", "m", "-", "1">>
\* "open": circuit breaker state label
T_open ==
    <<"o", "p", "e", "n">>
\* "half-open": circuit breaker state label
T_half_open ==
    <<"h", "a", "l", "f", "-", "o", "p", "e", "n">>
\* "closed": circuit breaker state label
T_closed ==
    <<"c", "l", "o", "s", "e", "d">>
\* "call failed": a Wrap message
T_failed ==
    <<"c", "a", "l", "l", " ", "f", "a", "i", "l", "e", "d">>
\* "Process": an operation given to WithOperation
T_process ==
    <<"P", "r", "o", "c", "e", "s", "s">>
\* "worker": a component given to WithComponent
T_worker ==
    <<"w", "o", "r", "k", "e", "r">>
\* "username": a field given to WithField
T_username ==
    <<"u", "s", "e", "r", "n", "a", "m", "e">>
\* "x@y": a value given to WithValue
T_value ==
    <<"x", "@", "y">>
\* the text of ErrCircuitHalfOpen
T_circuit_half_open ==
    <<"c", "i", "r", "c", "u", "i", "t", " ", "b", "r", "e", "a", "k", "e", "r", " ", "h", "a", "l", "f", "-", "o", "p", "e", "n", ",", " ", "t", "o", "o", " ", "m", "a", "n", "y", " ", "r", "e", "q", "u", "e", "s", "t", "s">>
\* strings.ToLower on the letters
LowerChar(c) ==
    LET up == <<"A","B","C","D","E","F","G","H","I","J","K","L","M",
                "N","O","P","Q","R","S","T","U","V","W","X","Y","Z">>
        lo == <<"a","b","c","d","e","f","g","h","i","j","k","l","m",
                "n","o","p","q","r","s","t","u","v","w","x","y","z">>
    IN  IF \E i \in 1..26 : up[i] = c
        THEN lo[CHOOSE i \in 1..26 : up[i] = c]
        ELSE c

ToLower(s) == [i \in 1..Len(s) |-> LowerChar(s[i])]

\* strings.Contains
Contains(s, sub) ==
    \E i \in 0..(Len(s) - Len(sub)) : \A j \in 1..Len(sub) : s[i + j] = sub[j]

\* %d of a non-negative int
RECURSIVE Digits(_)
Digits(n) ==
    LET d == <<"0","1","2","3","4","5","6","7","8","9">>
    IN  IF n < 10 THEN <<d[n + 1]>> ELSE Digits(n \div 10) \o <<d[(n % 10) + 1]>>

\* %v of a time.Duration of whole seconds below one hour
DurationString(secs) ==
    IF secs < 60
    THEN Digits(secs) \o <<"s">>
    ELSE Digits(secs \div 60) \o <<"m">> \o Digits(secs % 60) \o <<"s">>

(***************************************************************************)
(* Error values                                                            *)
(***************************************************************************)
\* the zero value of every field an error struct of the package can carry
Blank ==
    [kind |-> "", id |-> "", msg |-> <<>>, op |-> <<>>, comp |-> <<>>,
     code |-> 0, flag |-> FALSE, state |-> <<>>, item |-> <<>>,
     field |-> <<>>, value |-> T_nil, dur |-> 0, attempts |-> 0, max |-> 0, all |-> <<>>]

\* context.DeadlineExceeded: its type also has Timeout() and Temporary()
DeadlineExceeded ==
    [Blank EXCEPT !.kind = "deadlineExceededError", !.id = "DeadlineExceeded", !.msg = T_deadline]
\* context.Canceled, made by the standard library's errors.New
Canceled ==
    [Blank EXCEPT !.kind = "errorString", !.id = "Canceled", !.msg = T_canceled]

ErrRateLimited ==
    [Blank EXCEPT !.kind = "leafError", !.id = "ErrRateLimited", !.msg = T_rate_limited]
ErrNetworkTimeout ==
    [Blank EXCEPT !.kind = "leafError", !.id = "ErrNetworkTimeout", !.msg = T_network_timeout]
ErrServerError ==
    [Blank EXCEPT !.kind = "leafError", !.id = "ErrServerError", !.msg = T_server_error]
ErrConnectionError ==
    [Blank EXCEPT !.kind = "leafError", !.id = "ErrConnectionError", !.msg = T_connection_error]
ErrDeadlock ==
    [Blank EXCEPT !.kind = "leafError", !.id = "ErrDeadlock", !.msg = T_deadlock]
ErrCircuitOpen ==
    [Blank EXCEPT !.kind = "leafError", !.id = "ErrCircuitOpen", !.msg = T_circuit_open]
ErrInvalidResponse ==
    [Blank EXCEPT !.kind = "leafError", !.id = "ErrInvalidResponse", !.msg = T_invalid_response]
ErrCircuitHalfOpen ==
    [Blank EXCEPT !.kind = "leafError", !.id = "ErrCircuitHalfOpen", !.msg = T_circuit_half_open]
ErrRetryExhausted ==
    [Blank EXCEPT !.kind = "leafError", !.id = "ErrRetryExhausted", !.msg = T_retry_exhausted]

\* the six sentinels IsRetryable tests for
RetryableSentinels ==
    {ErrRateLimited, ErrNetworkTimeout, ErrServerError, ErrConnectionError,
     ErrDeadlock, ErrCircuitOpen}

\* the struct types of the package; each has an IsRetryable method
VariantKinds ==
    {"HTTPError", "RateLimitError", "RetryableError", "TimeoutError",
     "ValidationError", "ProcessingError", "NetworkError",
     "CircuitBreakerError", "RetryError"}

\* a variant in which HTTPError has no IsRetryable method
RetryableTypes_WithoutHTTPError == (VariantKinds \ {"HTTPError"}) \cup {"foreignRetryable"}

\* the types that satisfy the Retryable interface: the variants and any
\* externally defined type with an IsRetryable method
RetryableTypes == VariantKinds \cup {"foreignRetryable"}

\* the types that satisfy net.Error (Error, Timeout, Temporary)
NetErrorTypes == {"OpError", "deadlineExceededError"}

(***************************************************************************)
(* Chain primitives of the error library the package re-exports            *)
(***************************************************************************)
\* a variant in which a RetryError unwraps to its LastError when it has one
Unwrap_LastErrorIfAny(e) ==
    IF e = <<>> THEN <<>>
    ELSE IF Head(e).kind = "RetryError" /\ Tail(e) = <<>> THEN <<ErrRetryExhausted>>
    ELSE Tail(e)

\* a variant in which a RetryError unwraps to its LastError
Unwrap_LastError(e) ==
    IF e = <<>> THEN <<>> ELSE Tail(e)

\* Unwrap: the Unwrap method of the head, nil for a leaf
Unwrap(e) ==
    IF e = <<>> THEN <<>>
    ELSE IF Head(e).kind = "RetryError" THEN <<ErrRetryExhausted>>
    ELSE Tail(e)

\* the type of every error met by unwrapping e, outermost first
RECURSIVE TypeMarks(_)
TypeMarks(e) ==
    IF e = <<>> THEN <<>> ELSE <<Head(e).kind>> \o TypeMarks(Unwrap(e))

(***************************************************************************)
(* Error(): the message text of each error type                            *)
(***************************************************************************)
RECURSIVE ErrorText(_)

\* opStr of the Error methods: "Component/Operation" when a component is set
OpStr(n) ==
    IF n.comp # <<>> THEN n.comp \o <<"/">> \o n.op ELSE n.op

HTTPError_Error(e) ==
    LET n == Head(e)
        msgStr == IF n.comp # <<>> THEN n.comp \o T_sep \o n.msg ELSE n.msg
    IN  IF Tail(e) # <<>>
        THEN <<"H", "T", "T", "P", " ">> \o Digits(n.code) \o T_sep \o msgStr \o T_sep \o ErrorText(Tail(e))
        ELSE <<"H", "T", "T", "P", " ">> \o Digits(n.code) \o T_sep \o msgStr

RateLimitError_Error(e) ==
    LET n == Head(e)
        base == <<"r", "a", "t", "e", " ", "l", "i", "m", "i", "t", "e", "d", " ", "i", "n", " ">> \o OpStr(n) \o <<" ", "(", "r", "e", "t", "r", "y", " ", "a", "f", "t", "e", "r", " ">>
                    \o DurationString(n.dur) \o <<")", ":", " ">> \o n.msg
    IN  IF Tail(e) # <<>> THEN base \o T_sep \o ErrorText(Tail(e)) ELSE base

RetryableError_Error(e) ==
    LET n == Head(e)
        base == <<"r", "e", "t", "r", "y", "a", "b", "l", "e", " ", "e", "r", "r", "o", "r", " ", "i", "n", " ">> \o OpStr(n) \o <<" ", "(", "r", "e", "t", "r", "y", " ", "a", "f", "t", "e", "r", " ">>
                    \o DurationString(n.dur) \o <<")", ":", " ">> \o n.msg
    IN  IF Tail(e) # <<>> THEN base \o T_sep \o ErrorText(Tail(e)) ELSE base

TimeoutError_Error(e) ==
    LET n == Head(e)
        base == <<"t", "i", "m", "e", "o", "u", "t", " ", "i", "n", " ">> \o OpStr(n) \o <<" ", "a", "f", "t", "e", "r", " ">>
                    \o DurationString(n.dur) \o T_sep \o n.msg
    IN  IF Tail(e) # <<>> THEN base \o T_sep \o ErrorText(Tail(e)) ELSE base

ValidationError_Error(e) ==
    LET n == Head(e)
        baseMsg ==
            IF n.comp # <<>>
            THEN <<"v", "a", "l", "i", "d", "a", "t", "i", "o", "n", " ", "f", "a", "i", "l", "e", "d", " ", "i", "n", " ">> \o n.comp \o <<" ", "f", "o", "r", " ", "f", "i", "e", "l", "d", " ", "'">> \o n.field
                     \o <<"'", " ", "(", "v", "a", "l", "u", "e", ":", " ">> \o n.value \o <<")">>
            ELSE <<"v", "a", "l", "i", "d", "a", "t", "i", "o", "n", " ", "f", "a", "i", "l", "e", "d", " ", "f", "o", "r", " ", "f", "i", "e", "l", "d", " ", "'">> \o n.field
                     \o <<"'", " ", "(", "v", "a", "l", "u", "e", ":", " ">> \o n.value \o <<")">>
    IN  IF n.msg # <<>>
        THEN IF Tail(e) # <<>>
             THEN baseMsg \o T_sep \o n.msg \o T_sep \o ErrorText(Tail(e))
             ELSE baseMsg \o T_sep \o n.msg
        ELSE IF Tail(e) # <<>>
             THEN baseMsg \o T_sep \o ErrorText(Tail(e))
             ELSE baseMsg

ProcessingError_Error(e) ==
    LET n == Head(e)
        retryStr == IF n.flag THEN <<"r", "e", "t", "r", "y", "a", "b", "l", "e">> ELSE <<"n", "o", "t", " ", "r", "e", "t", "r", "y", "a", "b", "l", "e">>
    IN  IF n.item # <<>>
        THEN IF Tail(e) # <<>>
             THEN n.msg \o T_sep \o OpStr(n) \o <<" ", "f", "a", "i", "l", "e", "d", " ", "f", "o", "r", " ", "i", "t", "e", "m", " ">> \o n.item
                      \o <<" ", "(">> \o retryStr \o <<")", ":", " ">> \o ErrorText(Tail(e))
             ELSE n.msg \o T_sep \o OpStr(n) \o <<" ", "f", "a", "i", "l", "e", "d", " ", "f", "o", "r", " ", "i", "t", "e", "m", " ">> \o n.item
                      \o <<" ", "(">> \o retryStr \o <<")">>
        ELSE IF Tail(e) # <<>>
             THEN n.msg \o T_sep \o OpStr(n) \o <<" ", "f", "a", "i", "l", "e", "d", " ", "(">> \o retryStr
                      \o <<")", ":", " ">> \o ErrorText(Tail(e))
             ELSE n.msg \o T_sep \o OpStr(n) \o <<" ", "f", "a", "i", "l", "e", "d", " ", "(">> \o retryStr \o <<")">>

NetworkError_Error(e) ==
    LET n == Head(e)
        transientStr == IF n.flag THEN <<"t", "r", "a", "n", "s", "i", "e", "n", "t">> ELSE <<"p", "e", "r", "s", "i", "s", "t", "e", "n", "t">>
        base == <<"n", "e", "t", "w", "o", "r", "k", " ", "e", "r", "r", "o", "r", " ", "i", "n", " ">> \o OpStr(n) \o <<" ", "(">> \o transientStr
                    \o <<")", ":", " ">> \o n.msg
    IN  IF Tail(e) # <<>> THEN base \o T_sep \o ErrorText(Tail(e)) ELSE base

CircuitBreakerError_Error(e) ==
    LET n == Head(e)
        base == <<"c", "i", "r", "c", "u", "i", "t", " ", "b", "r", "e", "a", "k", "e", "r", " ">> \o n.state \o <<" ", "f", "o", "r", " ">> \o OpStr(n)
                    \o T_sep \o n.msg
    IN  IF Tail(e) # <<>> THEN base \o T_sep \o ErrorText(Tail(e)) ELSE base

RetryError_Error(e) ==
    LET n == Head(e)
        opStr == OpStr(n)
        s1 == <<"r", "e", "t", "r", "y", " ", "e", "x", "h", "a", "u", "s", "t", "e", "d", " ", "a", "f", "t", "e", "r", " ">> \o Digits(n.attempts) \o <<"/">>
                  \o Digits(n.max) \o <<" ", "a", "t", "t", "e", "m", "p", "t", "s">>
        s2 == IF opStr # <<>> THEN s1 \o <<" ", "f", "o", "r", " ">> \o opStr ELSE s1
    IN  IF Tail(e) # <<>> THEN s2 \o T_sep \o ErrorText(Tail(e)) ELSE s2

\* a variant in which a Wrap layer renders the cause alone
Wrap_Error_CauseOnly(e) == ErrorText(Tail(e))

\* the message a Wrap layer renders: "msg: cause", the cause alone for an empty msg
Wrap_Error(e) ==
    IF Head(e).msg = <<>> THEN ErrorText(Tail(e))
    ELSE Head(e).msg \o T_sep \o ErrorText(Tail(e))

\* err.Error(), dispatched on the type of the head
ErrorText(e) ==
    LET k == Head(e).kind
    IN  CASE k = "HTTPError" -> HTTPError_Error(e)
          [] k = "RateLimitError" -> RateLimitError_Error(e)
          [] k = "RetryableError" -> RetryableError_Error(e)
          [] k = "TimeoutError" -> TimeoutError_Error(e)
          [] k = "ValidationError" -> ValidationError_Error(e)
          [] k = "ProcessingError" -> ProcessingError_Error(e)
          [] k = "NetworkError" -> NetworkError_Error(e)
          [] k = "CircuitBreakerError" -> CircuitBreakerError_Error(e)
          [] k = "RetryError" -> RetryError_Error(e)
          [] k = "withStack" -> Wrap_Error(e)
          [] OTHER -> Head(e).msg

(***************************************************************************)
(* Is and As                                                               *)
(***************************************************************************)
\* the first pass of Is: some error of the chain is the reference itself
RECURSIVE ChainEquals(_, _)
ChainEquals(e, ref) ==
    /\ e # <<>>
    /\ \/ (Head(e).id # "" /\ Head(e).id = ref.id)
       \/ ChainEquals(Unwrap(e), ref)

\* the library's equivalence mark: same types down the chain and same message
EqualMarks(a, b) ==
    /\ TypeMarks(a) = TypeMarks(b)
    /\ ErrorText(a) = ErrorText(b)

\* the second pass of Is: some error of the chain carries the reference's mark
RECURSIVE ChainMarked(_, _)
ChainMarked(e, ref) ==
    /\ e # <<>>
    /\ \/ EqualMarks(e, <<ref>>)
       \/ ChainMarked(Unwrap(e), ref)

\* a variant that compares the error itself with the reference and never unwraps
Is_Shallow(e, ref) ==
    /\ e # <<>>
    /\ \/ (Head(e).id # "" /\ Head(e).id = ref.id)
       \/ EqualMarks(e, <<ref>>)

\* Is(err, reference) for a non-nil reference
Is(e, ref) == ChainEquals(e, ref) \/ ChainMarked(e, ref)

\* a variant of As that keeps walking and answers with the innermost match
RECURSIVE As_Innermost(_, _)
As_Innermost(e, types) ==
    IF e = <<>> THEN <<>>
    ELSE IF As_Innermost(Unwrap(e), types) # <<>> THEN As_Innermost(Unwrap(e), types)
    ELSE IF Head(e).kind \in types THEN e
    ELSE <<>>

\* As(err, &target): the first error of the chain, walking from the outside,
\* whose type is assignable to the target; <<>> when there is none
RECURSIVE As(_, _)
As(e, types) ==
    IF e = <<>> THEN <<>>
    ELSE IF Head(e).kind \in types THEN e
    ELSE As(Unwrap(e), types)

(***************************************************************************)
(* Introspection helpers                                                   *)
(***************************************************************************)
\* the *HTTPError found, <<>> for (nil, false)
IsHTTPError(e0) == As(e0, {"HTTPError"})

IsValidation(e0) == As(e0, {"ValidationError"}) # <<>>

IsNetworkError(e0) ==
    IF As(e0, {"NetworkError"}) # <<>> THEN TRUE
    ELSE As(e0, NetErrorTypes) # <<>>

IsContextError(e0) == Is(e0, DeadlineExceeded) \/ Is(e0, Canceled)

(***************************************************************************)
(* The IsRetryable methods                                                 *)
(***************************************************************************)
RECURSIVE IsRetryable(_)

\* a variant with the server-error bound off by one
HTTPError_IsRetryable_Above500(e) == Head(e).code > 500 \/ Head(e).code = 429

HTTPError_IsRetryable(e) == Head(e).code >= 500 \/ Head(e).code = 429

RateLimitError_IsRetryable(e) == TRUE

RetryableError_IsRetryable(e) == TRUE

TimeoutError_IsRetryable(e) == TRUE

ValidationError_IsRetryable(e) == FALSE

\* a variant that answers with the stored flag alone
ProcessingError_IsRetryable_StoredFlag(e) == Head(e).flag

ProcessingError_IsRetryable(e) ==
    IF Head(e).flag THEN TRUE
    ELSE IF Tail(e) # <<>> /\ IsRetryable(Tail(e)) THEN TRUE
    ELSE FALSE

NetworkError_IsRetryable(e) == Head(e).flag

\* a variant that refuses retries only while the breaker is open
CircuitBreakerError_IsRetryable_UnlessOpen(e) == Head(e).state # T_open

CircuitBreakerError_IsRetryable(e) == FALSE

RetryError_IsRetryable(e) == FALSE

\* r.IsRetryable() on a value of interface type Retryable
Retryable_IsRetryable(r) ==
    LET k == Head(r).kind
    IN  CASE k = "HTTPError" -> HTTPError_IsRetryable(r)
          [] k = "RateLimitError" -> RateLimitError_IsRetryable(r)
          [] k = "RetryableError" -> RetryableError_IsRetryable(r)
          [] k = "TimeoutError" -> TimeoutError_IsRetryable(r)
          [] k = "ValidationError" -> ValidationError_IsRetryable(r)
          [] k = "ProcessingError" -> ProcessingError_IsRetryable(r)
          [] k = "NetworkError" -> NetworkError_IsRetryable(r)
          [] k = "CircuitBreakerError" -> CircuitBreakerError_IsRetryable(r)
          [] k = "RetryError" -> RetryError_IsRetryable(r)
          [] OTHER -> Head(r).flag

(***************************************************************************)
(* Classification                                                          *)
(***************************************************************************)
\* a variant that asks the Retryable interface before looking for context errors
IsRetryable_CapabilityFirst(e0) ==
    IF e0 = <<>> THEN FALSE
    ELSE IF As(e0, RetryableTypes) # <<>>
         THEN Retryable_IsRetryable(As(e0, RetryableTypes))
    ELSE IF Is(e0, DeadlineExceeded) \/ Is(e0, Canceled) THEN FALSE
    ELSE IF \/ Is(e0, ErrRateLimited)
            \/ Is(e0, ErrNetworkTimeout)
            \/ Is(e0, ErrServerError)
            \/ Is(e0, ErrConnectionError)
            \/ Is(e0, ErrDeadlock)
            \/ Is(e0, ErrCircuitOpen)
         THEN TRUE
    ELSE IF IsHTTPError(e0) # <<>> THEN HTTPError_IsRetryable(IsHTTPError(e0))
    ELSE IF Contains(ToLower(ErrorText(e0)), T_rate_limit) THEN TRUE
    ELSE FALSE

\* a variant without the message-text fallback
IsRetryable_NoTextFallback(e0) ==
    IF e0 = <<>> THEN FALSE
    ELSE IF Is(e0, DeadlineExceeded) \/ Is(e0, Canceled) THEN FALSE
    ELSE IF As(e0, RetryableTypes) # <<>>
         THEN Retryable_IsRetryable(As(e0, RetryableTypes))
    ELSE IF \/ Is(e0, ErrRateLimited)
            \/ Is(e0, ErrNetworkTimeout)
            \/ Is(e0, ErrServerError)
            \/ Is(e0, ErrConnectionError)
            \/ Is(e0, ErrDeadlock)
            \/ Is(e0, ErrCircuitOpen)
         THEN TRUE
    ELSE IF IsHTTPError(e0) # <<>> THEN HTTPError_IsRetryable(IsHTTPError(e0))
    ELSE FALSE

\* a variant whose text fallback does not lower-case the message
IsRetryable_CaseSensitive(e0) ==
    IF e0 = <<>> THEN FALSE
    ELSE IF Is(e0, DeadlineExceeded) \/ Is(e0, Canceled) THEN FALSE
    ELSE IF As(e0, RetryableTypes) # <<>>
         THEN Retryable_IsRetryable(As(e0, RetryableTypes))
    ELSE IF \/ Is(e0, ErrRateLimited)
            \/ Is(e0, ErrNetworkTimeout)
            \/ Is(e0, ErrServerError)
            \/ Is(e0, ErrConnectionError)
            \/ Is(e0, ErrDeadlock)
            \/ Is(e0, ErrCircuitOpen)
         THEN TRUE
    ELSE IF IsHTTPError(e0) # <<>> THEN HTTPError_IsRetryable(IsHTTPError(e0))
    ELSE IF Contains(ErrorText(e0), T_rate_limit) THEN TRUE
    ELSE FALSE

IsRetryable(e0) ==
    IF e0 = <<>> THEN FALSE
    ELSE IF Is(e0, DeadlineExceeded) \/ Is(e0, Canceled) THEN FALSE
    ELSE IF As(e0, RetryableTypes) # <<>>
         THEN Retryable_IsRetryable(As(e0, RetryableTypes))
    ELSE IF \/ Is(e0, ErrRateLimited)
            \/ Is(e0, ErrNetworkTimeout)
            \/ Is(e0, ErrServerError)
            \/ Is(e0, ErrConnectionError)
            \/ Is(e0, ErrDeadlock)
            \/ Is(e0, ErrCircuitOpen)
         THEN TRUE
    ELSE IF IsHTTPError(e0) # <<>> THEN HTTPError_IsRetryable(IsHTTPError(e0))
    ELSE IF Contains(ToLower(ErrorText(e0)), T_rate_limit) THEN TRUE
    ELSE FALSE

\* a variant without the deadline test
IsRetryableTimeout_NoDeadlineCheck(e0) ==
    IF e0 = <<>> THEN FALSE
    ELSE IF As(e0, {"TimeoutError"}) # <<>>
         THEN TimeoutError_IsRetryable(As(e0, {"TimeoutError"}))
    ELSE Is(e0, ErrNetworkTimeout)

IsRetryableTimeout(e0) ==
    IF e0 = <<>> THEN FALSE
    ELSE IF Is(e0, DeadlineExceeded) THEN FALSE
    ELSE IF As(e0, {"TimeoutError"}) # <<>>
         THEN TimeoutError_IsRetryable(As(e0, {"TimeoutError"}))
    ELSE Is(e0, ErrNetworkTimeout)

\* a variant that takes transient to mean retryable
IsTransientError_AsRetryable(e0) == IsRetryable(e0)

IsTransientError(e0) ==
    IF e0 = <<>> THEN FALSE
    ELSE IF IsContextError(e0) THEN FALSE
    ELSE IF IsNetworkError(e0) THEN TRUE
    ELSE IF Is(e0, ErrRateLimited) THEN TRUE
    ELSE IF Is(e0, ErrServerError) THEN TRUE
    ELSE IF Is(e0, ErrConnectionError) THEN TRUE
    ELSE IF Is(e0, ErrDeadlock) THEN TRUE
    ELSE FALSE

\* a variant that forgets the 429 exception among the 4xx codes
IsPermanentError_No429Exception(e0) ==
    IF e0 = <<>> THEN FALSE
    ELSE IF IsValidation(e0) THEN TRUE
    ELSE IF IsContextError(e0) THEN TRUE
    ELSE IF Is(e0, ErrCircuitOpen) THEN TRUE
    ELSE IF IsHTTPError(e0) # <<>>
         THEN LET httpErr == Head(IsHTTPError(e0))
              IN  httpErr.code >= 400 /\ httpErr.code < 500
    ELSE FALSE

\* a variant that takes permanent to be the complement of retryable
IsPermanentError_NotRetryable(e0) == ~IsRetryable(e0)

IsPermanentError(e0) ==
    IF e0 = <<>> THEN FALSE
    ELSE IF IsValidation(e0) THEN TRUE
    ELSE IF IsContextError(e0) THEN TRUE
    ELSE IF Is(e0, ErrCircuitOpen) THEN TRUE
    ELSE IF IsHTTPError(e0) # <<>>
         THEN LET httpErr == Head(IsHTTPError(e0))
              IN  httpErr.code >= 400 /\ httpErr.code < 500 /\ httpErr.code # 429
    ELSE FALSE

(***************************************************************************)
(* Options: each operator is the closure the option returns, applied to    *)
(* the error under construction                                            *)
(***************************************************************************)
WithCause(cause, e) ==
    IF Head(e).kind \in {"HTTPError", "ValidationError", "TimeoutError",
                         "RateLimitError", "ProcessingError", "NetworkError",
                         "CircuitBreakerError"}
    THEN <<Head(e)>> \o cause
    ELSE e

WithRetryable(retryable, e) ==
    IF Head(e).kind = "ProcessingError"
    THEN <<[Head(e) EXCEPT !.flag = retryable]>> \o Tail(e)
    ELSE e

WithItemID(itemID, e) ==
    IF Head(e).kind = "ProcessingError"
    THEN <<[Head(e) EXCEPT !.item = itemID]>> \o Tail(e)
    ELSE e

WithValue(value, e) ==
    IF Head(e).kind = "ValidationError"
    THEN <<[Head(e) EXCEPT !.value = value]>> \o Tail(e)
    ELSE e

WithOperation(operation, e) ==
    IF Head(e).kind \in {"TimeoutError", "RateLimitError", "ProcessingError",
                         "NetworkError", "CircuitBreakerError"}
    THEN <<[Head(e) EXCEPT !.op = operation]>> \o Tail(e)
    ELSE e

WithMessage(message, e) ==
    IF Head(e).kind \in {"HTTPError", "ValidationError", "TimeoutError",
                         "RateLimitError", "ProcessingError", "NetworkError",
                         "CircuitBreakerError"}
    THEN <<[Head(e) EXCEPT !.msg = message]>> \o Tail(e)
    ELSE e

\* a variant that sets the status code of any error
WithStatusCode_AnyError(statusCode, e) ==
    <<[Head(e) EXCEPT !.code = statusCode]>> \o Tail(e)

WithStatusCode(statusCode, e) ==
    IF Head(e).kind = "HTTPError"
    THEN <<[Head(e) EXCEPT !.code = statusCode]>> \o Tail(e)
    ELSE e

WithField(field, e) ==
    IF Head(e).kind = "ValidationError"
    THEN <<[Head(e) EXCEPT !.field = field]>> \o Tail(e)
    ELSE e

WithTransient(transient, e) ==
    IF Head(e).kind = "NetworkError"
    THEN <<[Head(e) EXCEPT !.flag = transient]>> \o Tail(e)
    ELSE e

WithState(state, e) ==
    IF Head(e).kind = "CircuitBreakerError"
    THEN <<[Head(e) EXCEPT !.state = state]>> \o Tail(e)
    ELSE e

\* WithComponent(component): sets the Component field of every type that has one
WithComponent(component, e) ==
    IF Head(e).kind \in VariantKinds
    THEN <<[Head(e) EXCEPT !.comp = component]>> \o Tail(e)
    ELSE e

\* an Option value: the name of the option and the argument it was made with
\* (an error, a boolean, a string or an int, each kept in a field of its kind)
Option(name, arg) ==
    [name |-> name,
     cause |-> IF name = "WithCause" THEN arg ELSE <<>>,
     b |-> IF name \in {"WithRetryable", "WithTransient"} THEN arg ELSE FALSE,
     n |-> IF name = "WithStatusCode" THEN arg ELSE 0,
     s |-> IF name \in {"WithItemID", "WithValue", "WithOperation", "WithMessage",
                        "WithField", "WithState", "WithComponent"}
           THEN arg ELSE <<>>]

\* opt(err): calling an Option on the error under construction
ApplyOption(opt, e) ==
    CASE opt.name = "WithCause" -> WithCause(opt.cause, e)
      [] opt.name = "WithRetryable" -> WithRetryable(opt.b, e)
      [] opt.name = "WithItemID" -> WithItemID(opt.s, e)
      [] opt.name = "WithValue" -> WithValue(opt.s, e)
      [] opt.name = "WithOperation" -> WithOperation(opt.s, e)
      [] opt.name = "WithMessage" -> WithMessage(opt.s, e)
      [] opt.name = "WithStatusCode" -> WithStatusCode(opt.n, e)
      [] opt.name = "WithField" -> WithField(opt.s, e)
      [] opt.name = "WithTransient" -> WithTransient(opt.b, e)
      [] opt.name = "WithState" -> WithState(opt.s, e)
      [] opt.name = "WithComponent" -> WithComponent(opt.s, e)

\* for _, opt := range opts { opt(err) }
RECURSIVE ApplyOptions(_, _)
ApplyOptions(opts, e) ==
    IF opts = <<>> THEN e
    ELSE ApplyOptions(Tail(opts), ApplyOption(Head(opts), e))

(***************************************************************************)
(* Constructors                                                            *)
(***************************************************************************)
\* Wrap(err, msg): nil for a nil err
Wrap(e, msg) ==
    IF e = <<>> THEN <<>>
    ELSE <<[Blank EXCEPT !.kind = "withStack", !.msg = msg]>> \o e

NewHTTPError(statusCode, message, cause) ==
    <<[Blank EXCEPT !.kind = "HTTPError", !.code = statusCode, !.msg = message]>> \o cause

NewRateLimitError(message, operation, retryAfter, opts) ==
    ApplyOptions(opts, <<[Blank EXCEPT !.kind = "RateLimitError", !.msg = message,
                                       !.op = operation, !.dur = retryAfter]>>)

NewRetryableError(message, operation, retryAfter, opts) ==
    ApplyOptions(opts, <<[Blank EXCEPT !.kind = "RetryableError", !.msg = message,
                                       !.op = operation, !.dur = retryAfter]>>)

NewTimeoutError(message, operation, duration, opts) ==
    ApplyOptions(opts, <<[Blank EXCEPT !.kind = "TimeoutError", !.msg = message,
                                       !.op = operation, !.dur = duration]>>)

NewValidationError(message, field, opts) ==
    ApplyOptions(opts, <<[Blank EXCEPT !.kind = "ValidationError", !.msg = message,
                                       !.field = field]>>)

NewProcessingError(message, operation, opts) ==
    ApplyOptions(opts, <<[Blank EXCEPT !.kind = "ProcessingError", !.msg = message,
                                       !.op = operation, !.flag = FALSE]>>)

NewRetryableProcessingError(message, operation, opts) ==
    NewProcessingError(message, operation, <<Option("WithRetryable", TRUE)>> \o opts)

NewNetworkError(message, operation, opts) ==
    ApplyOptions(opts, <<[Blank EXCEPT !.kind = "NetworkError", !.msg = message,
                                       !.op = operation, !.flag = TRUE]>>)

NewCircuitBreakerError(message, operation, state, opts) ==
    ApplyOptions(opts, <<[Blank EXCEPT !.kind = "CircuitBreakerError", !.msg = message,
                                       !.op = operation, !.state = state]>>)

NewRetryError(attempts, maxAttempts, lastError, allErrors, opts) ==
    ApplyOptions(opts, <<[Blank EXCEPT !.kind = "RetryError", !.attempts = attempts,
                                       !.max = maxAttempts, !.all = allErrors]>>
                           \o lastError)

(***************************************************************************)
(* Inputs                                                                  *)
(***************************************************************************)
\* messages of untyped errors made with fmt.Errorf
ForeignMessages == {T_boom, T_api_limit, T_canceled}
\* messages of errors made with the package's New
NewMessages == {T_network_timeout}
\* messages given to Wrap
WrapMessages == {T_failed, T_rate_limit}
\* status codes given to NewHTTPError
StatusCodes == {404, 429, 499, 500}
\* state labels given to NewCircuitBreakerError
States == {T_open, T_half_open, T_closed}
\* the sentinels a caller returns directly
Sentinels == RetryableSentinels \cup {ErrInvalidResponse}

\* the option lists that at most set the cause to c
CauseOpts(c) == {<<>>, <<Option("WithCause", c)>>}
\* the option lists that set the cause to c, a boolean option, both or neither
FlagOpts(name, b, c) ==
    {<<>>, <<Option("WithCause", c)>>, <<Option(name, b)>>,
     <<Option("WithCause", c), Option(name, b)>>}

\* the causes a caller hands to WithCause or to NewHTTPError
OptCauses == {<<ErrRateLimited>>, Wrap(<<Canceled>>, T_failed)}
\* the options a caller makes
OptionPool ==
    {Option("WithCause", c) : c \in OptCauses}
        \cup {Option("WithRetryable", b) : b \in BOOLEAN}
        \cup {Option("WithTransient", b) : b \in BOOLEAN}
        \cup {Option("WithStatusCode", 500)}
        \cup {Option("WithItemID", T_item), Option("WithValue", T_value),
              Option("WithOperation", T_process), Option("WithMessage", T_failed),
              Option("WithField", T_username), Option("WithState", T_half_open),
              Option("WithComponent", T_worker)}
\* the option lists a caller passes to a constructor
OptLists == UNION {[1..n -> OptionPool] : n \in 0..MaxOpts}
\* attempts made and attempts allowed, as a retry loop reports them
Attempts == {2, 3}
MaxAttempts == {3, 5}
\* lastError and allErrors, as a retry loop reports them
LastAndAll ==
    {<< <<>>, <<>> >>,
     << <<ErrRateLimited>>, << <<ErrServerError>>, <<ErrRateLimited>> >> >>,
     << NewNetworkError(T_bad, T_op, <<>>), <<>> >>}

\* no option
NoOption == Option("", <<>>)
\* the caller's record of a call before any constructor is called
NoCall ==
    [fn |-> "", applied |-> <<>>, cause |-> <<>>, attempts |-> 0, maxAttempts |-> 0,
     lastError |-> <<>>, allErrors |-> <<>>, direct |-> FALSE, opt |-> NoOption,
     before |-> <<>>]

\* the processes that classify a shared error
Procs == 1..NumProcs
\* the classification entry points a process calls
EntryPoints == {"IsRetryable", "IsRetryableTimeout", "IsTransientError", "IsPermanentError"}
\* the errors one process hands to the others
SharedErrors ==
    {<<ErrRateLimited>>,
     Wrap(<<ErrDeadlock>>, T_failed),
     <<[Blank EXCEPT !.kind = "errorString", !.msg = T_api_limit]>>,
     NewHTTPError(404, T_bad, <<>>),
     NewHTTPError(500, T_bad, <<ErrCircuitOpen>>),
     NewNetworkError(T_bad, T_op, <<>>),
     NewTimeoutError(T_bad, T_op, 30, <<Option("WithCause", <<Canceled>>)>>),
     NewValidationError(T_bad, T_field, <<Option("WithCause", <<ErrRateLimited>>)>>),
     NewProcessingError(T_bad, T_op, <<Option("WithCause", NewNetworkError(T_bad, T_op, <<>>))>>),
     NewRetryError(3, 3, <<ErrRateLimited>>, <<>>, <<>>)}

\* a process that has no classification call running
Idle ==
    [fn |-> "", stage |-> "idle", seen |-> <<>>, result |-> FALSE, overlapped |-> FALSE]
\* no process has a call running and no target variable is declared
NoProcs == [calls |-> [p \in Procs |-> Idle], targets |-> [p \in Procs |-> <<>>]]

\* the caller's record of the four answers before any question is asked
NoVerdict ==
    [retryable |-> FALSE, timeout |-> FALSE, transient |-> FALSE, permanent |-> FALSE]

(***************************************************************************)
(* The caller: builds an error, then classifies it                         *)
(***************************************************************************)
Init ==
    /\ err = <<>>
    /\ pc = "build"
    /\ verdict = NoVerdict
    /\ call = NoCall
    /\ procs = NoProcs

Building == pc = "build" /\ Len(err) < MaxDepth

\* ctx.Err() of an ended context
ReturnContextError ==
    /\ Building /\ err = <<>>
    /\ \E c \in {DeadlineExceeded, Canceled} : err' = <<c>>
    /\ UNCHANGED <<pc, verdict, call, procs>>

\* return one of the package's sentinel variables
ReturnSentinel ==
    /\ Building /\ err = <<>>
    /\ \E s \in Sentinels : err' = <<s>>
    /\ UNCHANGED <<pc, verdict, call, procs>>

\* fmt.Errorf(m) without %w: a standard-library errorString
ReturnForeignError ==
    /\ Building /\ err = <<>>
    /\ \E m \in ForeignMessages : err' = <<[Blank EXCEPT !.kind = "errorString", !.msg = m]>>
    /\ UNCHANGED <<pc, verdict, call, procs>>

\* New(m): a fresh leaf of the same type as the sentinels
CallNew ==
    /\ Building /\ err = <<>>
    /\ \E m \in NewMessages : err' = <<[Blank EXCEPT !.kind = "leafError", !.msg = m]>>
    /\ UNCHANGED <<pc, verdict, call, procs>>

\* a *net.OpError from the standard library
ReturnNetError ==
    /\ Building /\ err = <<>>
    /\ err' = <<[Blank EXCEPT !.kind = "OpError", !.msg = T_dial]>>
    /\ UNCHANGED <<pc, verdict, call, procs>>

\* an error type of another package with its own IsRetryable method
ReturnForeignRetryable ==
    /\ Building /\ err = <<>>
    /\ \E b \in BOOLEAN :
          err' = <<[Blank EXCEPT !.kind = "foreignRetryable", !.msg = T_busy, !.flag = b]>>
    /\ UNCHANGED <<pc, verdict, call, procs>>

CallWrap ==
    /\ Building
    /\ \E m \in WrapMessages : err' = Wrap(err, m)
    /\ UNCHANGED <<pc, verdict, call, procs>>

CallNewHTTPError ==
    /\ Building
    /\ \E s \in StatusCodes : err' = NewHTTPError(s, T_bad, err)
    /\ UNCHANGED <<pc, verdict, call, procs>>

CallNewRateLimitError ==
    /\ Building
    /\ \E opts \in CauseOpts(err) : err' = NewRateLimitError(T_bad, T_op, 30, opts)
    /\ UNCHANGED <<pc, verdict, call, procs>>

CallNewRetryableError ==
    /\ Building
    /\ \E opts \in CauseOpts(err) : err' = NewRetryableError(T_bad, T_op, 30, opts)
    /\ UNCHANGED <<pc, verdict, call, procs>>

CallNewTimeoutError ==
    /\ Building
    /\ \E opts \in CauseOpts(err) : err' = NewTimeoutError(T_bad, T_op, 30, opts)
    /\ UNCHANGED <<pc, verdict, call, procs>>

CallNewValidationError ==
    /\ Building
    /\ \E opts \in CauseOpts(err) : err' = NewValidationError(T_bad, T_field, opts)
    /\ UNCHANGED <<pc, verdict, call, procs>>

CallNewProcessingError ==
    /\ Building
    /\ \E opts \in FlagOpts("WithRetryable", TRUE, err) :
          err' = NewProcessingError(T_bad, T_op, opts)
    /\ UNCHANGED <<pc, verdict, call, procs>>

CallNewRetryableProcessingError ==
    /\ Building
    /\ \E opts \in FlagOpts("WithRetryable", FALSE, err) :
          err' = NewRetryableProcessingError(T_bad, T_op, opts)
    /\ UNCHANGED <<pc, verdict, call, procs>>

CallNewNetworkError ==
    /\ Building
    /\ \E opts \in FlagOpts("WithTransient", FALSE, err) :
          err' = NewNetworkError(T_bad, T_op, opts)
    /\ UNCHANGED <<pc, verdict, call, procs>>

CallNewCircuitBreakerError ==
    /\ Building
    /\ \E st \in States, opts \in CauseOpts(err) :
          err' = NewCircuitBreakerError(T_bad, T_op, st, opts)
    /\ UNCHANGED <<pc, verdict, call, procs>>

\* a retry loop gives up after 3 of 3 attempts that all ended in err
CallNewRetryError ==
    /\ Building
    /\ err' = NewRetryError(3, 3, err, IF err = <<>> THEN <<>> ELSE <<err>>, <<>>)
    /\ UNCHANGED <<pc, verdict, call, procs>>

\* the caller asks the four classification questions about err, in turn
CallIsRetryable ==
    /\ pc = "build"
    /\ verdict' = [verdict EXCEPT !.retryable = IsRetryable(err)]
    /\ pc' = "retryable"
    /\ UNCHANGED <<err, call, procs>>

CallIsRetryableTimeout ==
    /\ pc = "retryable"
    /\ verdict' = [verdict EXCEPT !.timeout = IsRetryableTimeout(err)]
    /\ pc' = "timeout"
    /\ UNCHANGED <<err, call, procs>>

CallIsTransientError ==
    /\ pc = "timeout"
    /\ verdict' = [verdict EXCEPT !.transient = IsTransientError(err)]
    /\ pc' = "transient"
    /\ UNCHANGED <<err, call, procs>>

CallIsPermanentError ==
    /\ pc = "transient"
    /\ verdict' = [verdict EXCEPT !.permanent = IsPermanentError(err)]
    /\ pc' = "done"
    /\ UNCHANGED <<err, call, procs>>

\* the caller drops the error and starts over
Discard ==
    /\ pc = "done"
    /\ err' = <<>>
    /\ pc' = "build"
    /\ verdict' = NoVerdict
    /\ call' = NoCall
    /\ UNCHANGED procs

Next ==
    \/ ReturnContextError
    \/ ReturnSentinel
    \/ ReturnForeignError
    \/ CallNew
    \/ ReturnNetError
    \/ ReturnForeignRetryable
    \/ CallWrap
    \/ CallNewHTTPError
    \/ CallNewRateLimitError
    \/ CallNewRetryableError
    \/ CallNewTimeoutError
    \/ CallNewValidationError
    \/ CallNewProcessingError
    \/ CallNewRetryableProcessingError
    \/ CallNewNetworkError
    \/ CallNewCircuitBreakerError
    \/ CallNewRetryError
    \/ CallIsRetryable
    \/ CallIsRetryableTimeout
    \/ CallIsTransientError
    \/ CallIsPermanentError
    \/ Discard

Spec == Init /\ [][Next]_vars

(***************************************************************************)
(* The caller: constructs one error with options, then classifies it       *)
(***************************************************************************)
ConfigureHTTPError ==
    /\ pc = "build" /\ call.fn = ""
    /\ \E s \in StatusCodes, c \in {<<>>} \cup OptCauses :
          /\ err' = NewHTTPError(s, T_bad, c)
          /\ call' = [NoCall EXCEPT !.fn = "NewHTTPError", !.cause = c]
    /\ UNCHANGED <<pc, verdict, procs>>

ConfigureRateLimitError ==
    /\ pc = "build" /\ call.fn = ""
    /\ \E opts \in OptLists :
          /\ err' = NewRateLimitError(T_bad, T_op, 30, opts)
          /\ call' = [NoCall EXCEPT !.fn = "NewRateLimitError", !.applied = opts]
    /\ UNCHANGED <<pc, verdict, procs>>

ConfigureRetryableError ==
    /\ pc = "build" /\ call.fn = ""
    /\ \E opts \in OptLists :
          /\ err' = NewRetryableError(T_bad, T_op, 30, opts)
          /\ call' = [NoCall EXCEPT !.fn = "NewRetryableError", !.applied = opts]
    /\ UNCHANGED <<pc, verdict, procs>>

ConfigureTimeoutError ==
    /\ pc = "build" /\ call.fn = ""
    /\ \E opts \in OptLists :
          /\ err' = NewTimeoutError(T_bad, T_op, 30, opts)
          /\ call' = [NoCall EXCEPT !.fn = "NewTimeoutError", !.applied = opts]
    /\ UNCHANGED <<pc, verdict, procs>>

ConfigureValidationError ==
    /\ pc = "build" /\ call.fn = ""
    /\ \E opts \in OptLists :
          /\ err' = NewValidationError(T_bad, T_field, opts)
          /\ call' = [NoCall EXCEPT !.fn = "NewValidationError", !.applied = opts]
    /\ UNCHANGED <<pc, verdict, procs>>

ConfigureProcessingError ==
    /\ pc = "build" /\ call.fn = ""
    /\ \E opts \in OptLists :
          /\ err' = NewProcessingError(T_bad, T_op, opts)
          /\ call' = [NoCall EXCEPT !.fn = "NewProcessingError", !.applied = opts]
    /\ UNCHANGED <<pc, verdict, procs>>

ConfigureNetworkError ==
    /\ pc = "build" /\ call.fn = ""
    /\ \E opts \in OptLists :
          /\ err' = NewNetworkError(T_bad, T_op, opts)
          /\ call' = [NoCall EXCEPT !.fn = "NewNetworkError", !.applied = opts]
    /\ UNCHANGED <<pc, verdict, procs>>

\* the constructor puts WithRetryable(true) before the caller's options
ConfigureRetryableProcessingError ==
    /\ pc = "build" /\ call.fn = ""
    /\ \E opts \in OptLists :
          /\ err' = NewRetryableProcessingError(T_bad, T_op, opts)
          /\ call' = [NoCall EXCEPT !.fn = "NewRetryableProcessingError",
                                    !.applied = <<Option("WithRetryable", TRUE)>> \o opts]
    /\ UNCHANGED <<pc, verdict, procs>>

ConfigureCircuitBreakerError ==
    /\ pc = "build" /\ call.fn = ""
    /\ \E st \in States, opts \in OptLists :
          /\ err' = NewCircuitBreakerError(T_bad, T_op, st, opts)
          /\ call' = [NoCall EXCEPT !.fn = "NewCircuitBreakerError", !.applied = opts]
    /\ UNCHANGED <<pc, verdict, procs>>

ConfigureRetryError ==
    /\ pc = "build" /\ call.fn = ""
    /\ \E a \in Attempts, m \in MaxAttempts, la \in LastAndAll, opts \in OptLists :
          /\ err' = NewRetryError(a, m, la[1], la[2], opts)
          /\ call' = [NoCall EXCEPT !.fn = "NewRetryError", !.applied = opts,
                                    !.attempts = a, !.maxAttempts = m,
                                    !.lastError = la[1], !.allErrors = la[2]]
    /\ UNCHANGED <<pc, verdict, procs>>

\* opt(err) on an error already constructed, as in WithStatusCode(500)(err)
CallOption ==
    /\ pc = "build" /\ call.fn # ""
    /\ Len(call.applied) < MaxOpts
    /\ \E opt \in OptionPool :
          /\ err' = ApplyOption(opt, err)
          /\ call' = [call EXCEPT !.applied = Append(call.applied, opt),
                                  !.direct = TRUE, !.opt = opt, !.before = err]
    /\ UNCHANGED <<pc, verdict, procs>>

OptNext ==
    \/ ConfigureHTTPError
    \/ ConfigureRateLimitError
    \/ ConfigureRetryableError
    \/ ConfigureTimeoutError
    \/ ConfigureValidationError
    \/ ConfigureProcessingError
    \/ ConfigureRetryableProcessingError
    \/ ConfigureNetworkError
    \/ ConfigureCircuitBreakerError
    \/ ConfigureRetryError
    \/ CallOption
    \/ CallIsRetryable
    \/ CallIsRetryableTimeout
    \/ CallIsTransientError
    \/ CallIsPermanentError
    \/ Discard

OptSpec == Init /\ [][OptNext]_vars

(***************************************************************************)
(* Processes that classify one shared error concurrently.  A call runs in  *)
(* two steps: up to the errors.As that fills its target variable, then     *)
(* from there to its return.                                               *)
(***************************************************************************)
\* a variant in which the calls share one package-level target variable
TargetSlot_Shared(p) == 1

\* the target variable of the call process p has running: a local of the call
TargetSlot(p) == p

\* what a call of fn on e returns before it declares its target variable:
\* "true", "false", or "no" when it goes on
Early(fn, e) ==
    CASE fn = "IsRetryable" ->
            IF e = <<>> THEN "false"
            ELSE IF Is(e, DeadlineExceeded) \/ Is(e, Canceled) THEN "false"
            ELSE "no"
      [] fn = "IsRetryableTimeout" ->
            IF e = <<>> THEN "false"
            ELSE IF Is(e, DeadlineExceeded) THEN "false"
            ELSE "no"
      [] fn = "IsTransientError" ->
            IF e = <<>> THEN "false"
            ELSE IF IsContextError(e) THEN "false"
            ELSE "no"
      [] fn = "IsPermanentError" ->
            IF e = <<>> THEN "false"
            ELSE IF IsValidation(e) THEN "true"
            ELSE IF IsContextError(e) THEN "true"
            ELSE IF Is(e, ErrCircuitOpen) THEN "true"
            ELSE "no"

\* what errors.As stores in the target variable of a call of fn on e
TargetOf(fn, e) ==
    CASE fn = "IsRetryable" -> As(e, RetryableTypes)
      [] fn = "IsRetryableTimeout" -> As(e, {"TimeoutError"})
      [] fn = "IsTransientError" -> As(e, {"NetworkError"})
      [] fn = "IsPermanentError" -> IsHTTPError(e)

\* what a call of fn on e returns once errors.As has stored t in its target
Rest(fn, e, t) ==
    CASE fn = "IsRetryable" ->
            IF t # <<>> THEN Retryable_IsRetryable(t)
            ELSE IF \/ Is(e, ErrRateLimited)
                    \/ Is(e, ErrNetworkTimeout)
                    \/ Is(e, ErrServerError)
                    \/ Is(e, ErrConnectionError)
                    \/ Is(e, ErrDeadlock)
                    \/ Is(e, ErrCircuitOpen)
                 THEN TRUE
            ELSE IF IsHTTPError(e) # <<>> THEN HTTPError_IsRetryable(IsHTTPError(e))
            ELSE Contains(ToLower(ErrorText(e)), T_rate_limit)
      [] fn = "IsRetryableTimeout" ->
            IF t # <<>> THEN TimeoutError_IsRetryable(t)
            ELSE Is(e, ErrNetworkTimeout)
      [] fn = "IsTransientError" ->
            IF t # <<>> THEN TRUE
            ELSE IF As(e, NetErrorTypes) # <<>> THEN TRUE
            ELSE \/ Is(e, ErrRateLimited)
                 \/ Is(e, ErrServerError)
                 \/ Is(e, ErrConnectionError)
                 \/ Is(e, ErrDeadlock)
      [] fn = "IsPermanentError" ->
            IF t # <<>>
            THEN Head(t).code >= 400 /\ Head(t).code < 500 /\ Head(t).code # 429
            ELSE FALSE

AllIdle == \A p \in Procs : procs.calls[p].stage = "idle"

\* one process makes an error and hands it to the others
Share ==
    /\ err = <<>> /\ AllIdle
    /\ \E e \in SharedErrors : err' = e
    /\ UNCHANGED <<pc, verdict, call, procs>>

\* the processes let go of the error
Drop ==
    /\ err # <<>> /\ AllIdle
    /\ err' = <<>>
    /\ UNCHANGED <<pc, verdict, call, procs>>

\* a process calls an entry point on err; the call runs until it returns
\* early or has filled its target variable
BeginCall ==
    /\ \E p \in Procs, fn \in EntryPoints :
          /\ procs.calls[p].stage = "idle"
          /\ LET early == Early(fn, err)
                 others == {q \in Procs \ {p} : procs.calls[q].stage = "running"}
                 mine == [fn |-> fn,
                          stage |-> IF early = "no" THEN "running" ELSE "returned",
                          seen |-> err,
                          result |-> (early = "true"),
                          overlapped |-> (others # {})]
             IN  procs' =
                    [calls |-> [q \in Procs |->
                                   IF q = p THEN mine
                                   ELSE IF q \in others
                                        THEN [procs.calls[q] EXCEPT !.overlapped = TRUE]
                                   ELSE procs.calls[q]],
                     targets |-> IF early = "no"
                                 THEN [procs.targets EXCEPT ![TargetSlot(p)] = TargetOf(fn, err)]
                                 ELSE procs.targets]
    /\ UNCHANGED <<err, pc, verdict, call>>

\* the call reads its target variable and returns
EndCall ==
    /\ \E p \in Procs :
          /\ procs.calls[p].stage = "running"
          /\ procs' = [procs EXCEPT
                          !.calls[p].stage = "returned",
                          !.calls[p].result =
                              Rest(procs.calls[p].fn, err, procs.targets[TargetSlot(p)])]
    /\ UNCHANGED <<err, pc, verdict, call>>

\* the process takes the answer and is free to call again
TakeResult ==
    /\ \E p \in Procs :
          /\ procs.calls[p].stage = "returned"
          /\ procs' = [procs EXCEPT !.calls[p] = Idle]
    /\ UNCHANGED <<err, pc, verdict, call>>

ConcNext ==
    \/ Share
    \/ Drop
    \/ BeginCall
    \/ EndCall
    \/ TakeResult

ConcSpec == Init /\ [][ConcNext]_vars

(***************************************************************************)
(* Vocabulary of the properties                                            *)
(***************************************************************************)
\* the chain of e: the errors met by unwrapping it, outermost first, each
\* given with its own causes
RECURSIVE SubErrors(_)
SubErrors(e) ==
    IF e = <<>> THEN <<>> ELSE <<e>> \o SubErrors(Unwrap(e))

\* sub counts as ref for the error library: it is ref itself, or a leaf of
\* the same type carrying the same text
Matches(sub, ref) ==
    \/ Head(sub) = ref
    \/ (Unwrap(sub) = <<>> /\ Head(sub).kind = ref.kind /\ Head(sub).msg = ref.msg)

\* the chain of e contains ref
Holds(e, ref) ==
    LET subs == SubErrors(e)
    IN  \E i \in 1..Len(subs) : Matches(subs[i], ref)

\* the chain of e contains a context-abandonment condition
Abandoned(e) == Holds(e, DeadlineExceeded) \/ Holds(e, Canceled)

\* the positions of the chain of e whose error has an IsRetryable method
Capable(e) ==
    LET subs == SubErrors(e)
    IN  {i \in 1..Len(subs) : Head(subs[i]).kind \in RetryableTypes}

\* the outermost and the innermost error of the chain of e that has an
\* IsRetryable method
FirstCapable(e) ==
    LET c == Capable(e)
    IN  SubErrors(e)[CHOOSE i \in c : \A j \in c : i <= j]
LastCapable(e) ==
    LET c == Capable(e)
    IN  SubErrors(e)[CHOOSE i \in c : \A j \in c : j <= i]

\* the six-step priority procedure, with the retryability each variant
\* reports about itself read from the variant table
RECURSIVE Procedure(_)
SelfReported(sub) ==
    LET n == Head(sub)
    IN  CASE n.kind = "HTTPError" -> (n.code >= 500 \/ n.code = 429)
          [] n.kind \in {"RateLimitError", "RetryableError", "TimeoutError"} -> TRUE
          [] n.kind \in {"ValidationError", "CircuitBreakerError", "RetryError"} -> FALSE
          [] n.kind = "ProcessingError" -> (n.flag \/ Procedure(Tail(sub)))
          [] OTHER -> n.flag

Procedure(e) ==
    IF e = <<>> THEN FALSE
    ELSE IF Abandoned(e) THEN FALSE
    ELSE IF Capable(e) # {} THEN SelfReported(FirstCapable(e))
    ELSE IF \E s \in RetryableSentinels : Holds(e, s) THEN TRUE
    ELSE LET subs == SubErrors(e)
         IN  IF \E i \in 1..Len(subs) : Head(subs[i]).kind = "HTTPError"
             THEN LET i == CHOOSE i \in 1..Len(subs) :
                               /\ Head(subs[i]).kind = "HTTPError"
                               /\ \A j \in 1..(i - 1) : Head(subs[j]).kind # "HTTPError"
                      c == Head(subs[i]).code
                  IN  c >= 500 \/ c = 429
             ELSE Contains(ToLower(ErrorText(e)), T_rate_limit)

(***************************************************************************)
(* Properties                                                              *)
(***************************************************************************)
\* C1: an error whose chain contains context.DeadlineExceeded or
\* context.Canceled, at any depth and under any variant, is not retryable
\* and is permanent.
C1_AbandonedIsPermanent ==
    (pc = "done" /\ Abandoned(err)) => (~verdict.retryable /\ verdict.permanent)

\* a TimeoutError, which reports itself retryable, over a wrapped deadline
C1_Witness ==
    /\ pc = "done"
    /\ Len(err) = 3
    /\ err[1].kind = "TimeoutError"
    /\ err[2].kind = "withStack"
    /\ err[3] = DeadlineExceeded
    /\ ~verdict.retryable
    /\ verdict.permanent

\* C2: an error whose chain contains context.DeadlineExceeded or
\* context.Canceled is neither a retryable timeout nor transient.
C2_AbandonedAtEveryEntryPoint ==
    (pc = "done" /\ Abandoned(err)) => (~verdict.timeout /\ ~verdict.transient)

\* C3: IsRetryable returns what the six-step priority procedure returns.
C3_PriorityProcedure ==
    pc = "done" => verdict.retryable = Procedure(err)

\* the text fallback decides: a wrapped untyped error naming a rate limit
C3_Witness ==
    /\ pc = "done"
    /\ Len(err) = 2
    /\ err[1].kind = "withStack"
    /\ err[2].kind = "errorString"
    /\ err[2].msg = T_api_limit
    /\ verdict.retryable

\* C4 as stated: with two or more self-reporting errors in a chain without
\* a context condition, the innermost one decides.
C4_InnermostDecides ==
    (pc = "done" /\ ~Abandoned(err) /\ Cardinality(Capable(err)) >= 2)
        => verdict.retryable = SelfReported(LastCapable(err))

\* C4 as amended: with two or more self-reporting errors in a chain without
\* a context condition, the outermost one (the first found walking from the
\* error towards its root cause) decides.
C4_OutermostDecides ==
    (pc = "done" /\ ~Abandoned(err) /\ Cardinality(Capable(err)) >= 2)
        => verdict.retryable = SelfReported(FirstCapable(err))

\* a persistent NetworkError whose cause is a RateLimitError is not retried
C4_Witness ==
    /\ pc = "done"
    /\ Len(err) = 2
    /\ err[1].kind = "NetworkError"
    /\ ~err[1].flag
    /\ err[2].kind = "RateLimitError"
    /\ ~verdict.retryable

\* C5: the nil error is not retryable, not a retryable timeout, not
\* transient and not permanent.
C5_NilIsNothing ==
    (pc = "done" /\ err = <<>>)
        => (~verdict.retryable /\ ~verdict.timeout /\ ~verdict.transient /\ ~verdict.permanent)

C5_Witness ==
    /\ pc = "done"
    /\ err = <<>>
    /\ verdict = NoVerdict

\* C6 as stated: an HTTPError with any cause is retryable and not permanent
\* for status 5xx or 429, and not retryable and permanent for any other 4xx.
C6_StatusAloneDecides ==
    (pc = "done" /\ err # <<>> /\ Head(err).kind = "HTTPError") =>
        LET s == Head(err).code
        IN  /\ (s \in 500..599 \/ s = 429) => (verdict.retryable /\ ~verdict.permanent)
            /\ (s \in 400..499 /\ s # 429) => (~verdict.retryable /\ verdict.permanent)

\* C6 as amended: an HTTPError with status 4xx other than 429 is not
\* retryable and is permanent whatever its cause; one with status 5xx or 429
\* is retryable unless its chain contains a context condition, and is not
\* permanent unless its chain contains a context condition, a
\* ValidationError or the circuit-open sentinel.
C6_StatusDecidesUnlessOverridden ==
    (pc = "done" /\ err # <<>> /\ Head(err).kind = "HTTPError") =>
        LET s == Head(err).code
            validation == \E i \in 1..Len(SubErrors(err)) :
                              Head(SubErrors(err)[i]).kind = "ValidationError"
        IN  /\ ((s \in 500..599 \/ s = 429) /\ ~Abandoned(err)) => verdict.retryable
            /\ ((s \in 500..599 \/ s = 429) /\ ~Abandoned(err) /\ ~validation
                    /\ ~Holds(err, ErrCircuitOpen)) => ~verdict.permanent
            /\ (s \in 400..499 /\ s # 429) => (~verdict.retryable /\ verdict.permanent)

\* a 500 over a wrapped sentinel is retryable and not permanent
C6_Witness ==
    /\ pc = "done"
    /\ Len(err) = 3
    /\ err[1].kind = "HTTPError"
    /\ err[1].code = 500
    /\ err[3] = ErrDeadlock
    /\ verdict.retryable
    /\ ~verdict.permanent

\* C7: a ValidationError with any cause is not retryable, is permanent and
\* is not transient.
C7_ValidationIsPermanentOnly ==
    (pc = "done" /\ err # <<>> /\ Head(err).kind = "ValidationError")
        => (~verdict.retryable /\ verdict.permanent /\ ~verdict.transient)

\* C8: a NetworkError built without WithTransient has the transient flag set
\* and is retryable and transient; one built with WithTransient(false) is
\* neither.
C8_TransientFlagDecides ==
    /\ Head(NewNetworkError(T_bad, T_op, <<>>)).flag
    /\ (pc = "done" /\ err # <<>> /\ Head(err).kind = "NetworkError" /\ Tail(err) = <<>>)
          => /\ verdict.retryable = Head(err).flag
             /\ verdict.transient = Head(err).flag

\* C9: for a ProcessingError whose chain contains no context condition,
\* IsRetryable is its flag or the retryability of its cause; false with no
\* flag and no cause, true with no flag and a RateLimitError as cause.
C9_ProcessingDerived ==
    (pc = "done" /\ err # <<>> /\ Head(err).kind = "ProcessingError" /\ ~Abandoned(err)) =>
        /\ verdict.retryable = (Head(err).flag \/ IsRetryable(Tail(err)))
        /\ (~Head(err).flag /\ Tail(err) = <<>>) => ~verdict.retryable
        /\ (~Head(err).flag /\ Tail(err) # <<>> /\ Head(Tail(err)).kind = "RateLimitError")
              => verdict.retryable

\* no flag, and a wrapped RateLimitError as cause
C9_Witness ==
    /\ pc = "done"
    /\ Len(err) = 3
    /\ err[1].kind = "ProcessingError"
    /\ ~err[1].flag
    /\ err[2].kind = "withStack"
    /\ err[3].kind = "RateLimitError"
    /\ verdict.retryable

\* C10: a CircuitBreakerError is not retryable, whatever its state label and
\* its cause.
C10_CircuitBreakerNeverRetryable ==
    (pc = "done" /\ err # <<>> /\ Head(err).kind = "CircuitBreakerError")
        => ~verdict.retryable

\* half-open, over a cause that is itself retryable
C10_Witness ==
    /\ pc = "done"
    /\ Len(err) = 2
    /\ err[1].kind = "CircuitBreakerError"
    /\ err[1].state = T_half_open
    /\ err[2] = ErrRateLimited
    /\ ~verdict.retryable

\* C11: a retryable sentinel under any number of generic Wrap layers is still
\* found by Is and is retryable; for ErrRateLimited, ErrServerError,
\* ErrConnectionError and ErrDeadlock it is transient too.
WrappedOnly(e) ==
    /\ e # <<>>
    /\ \A i \in 1..(Len(e) - 1) : e[i].kind = "withStack"

C11_WrapKeepsSentinel ==
    (pc = "done" /\ WrappedOnly(err) /\ err[Len(err)] \in RetryableSentinels) =>
        /\ Is(err, err[Len(err)])
        /\ verdict.retryable
        /\ (err[Len(err)] \in {ErrRateLimited, ErrServerError, ErrConnectionError, ErrDeadlock}
              => verdict.transient)

\* ErrDeadlock under two Wrap layers
C11_Witness ==
    /\ pc = "done"
    /\ Len(err) = 3
    /\ err[1].kind = "withStack"
    /\ err[2].kind = "withStack"
    /\ err[3] = ErrDeadlock
    /\ verdict.retryable
    /\ verdict.transient

\* C12: for a non-nil error IsPermanentError answers as the reference policy:
\* true for a chain with a ValidationError, a context condition or the
\* circuit-open sentinel; otherwise the 4xx-but-not-429 test on the first
\* HTTPError of the chain; otherwise false.
KindAt(e, k) ==
    LET subs == SubErrors(e)
    IN  {i \in 1..Len(subs) : Head(subs[i]).kind = k}

FirstOfKind(e, k) ==
    LET at == KindAt(e, k)
    IN  Head(SubErrors(e)[CHOOSE i \in at : \A j \in at : i <= j])

PermanentPolicy(e) ==
    IF KindAt(e, "ValidationError") # {} THEN TRUE
    ELSE IF Abandoned(e) THEN TRUE
    ELSE IF Holds(e, ErrCircuitOpen) THEN TRUE
    ELSE IF KindAt(e, "HTTPError") # {}
         THEN LET c == FirstOfKind(e, "HTTPError").code
              IN  400 <= c /\ c < 500 /\ c # 429
    ELSE FALSE

C12_PermanentPolicy ==
    (pc = "done" /\ err # <<>>) => verdict.permanent = PermanentPolicy(err)

\* a 429 over a 404: the outer HTTPError is the one read
C12_Witness ==
    /\ pc = "done"
    /\ Len(err) = 2
    /\ err[1].kind = "HTTPError"
    /\ err[1].code = 429
    /\ err[2].kind = "HTTPError"
    /\ err[2].code = 404
    /\ ~verdict.permanent

\* C13: for a non-nil error IsTransientError answers as the reference policy:
\* false for a chain with a context condition; otherwise true for a chain with
\* a NetworkError or a net.Error; otherwise true for a chain with the
\* rate-limited, server-error, connection-error or deadlock sentinel;
\* otherwise false.
TransientPolicy(e) ==
    IF Abandoned(e) THEN FALSE
    ELSE IF KindAt(e, "NetworkError") # {} THEN TRUE
    ELSE IF \E k \in NetErrorTypes : KindAt(e, k) # {} THEN TRUE
    ELSE \E s \in {ErrRateLimited, ErrServerError, ErrConnectionError, ErrDeadlock} :
             Holds(e, s)

C13_TransientPolicy ==
    (pc = "done" /\ err # <<>>) => verdict.transient = TransientPolicy(err)

\* a RateLimitError alone is retryable and not transient
C13_Witness ==
    /\ pc = "done"
    /\ Len(err) = 1
    /\ err[1].kind = "RateLimitError"
    /\ verdict.retryable
    /\ ~verdict.transient

\* C14: for a non-nil error IsRetryableTimeout is false for a chain with
\* deadline-exceeded; otherwise the verdict of the TimeoutError of the chain
\* if there is one; otherwise true exactly for a chain with the
\* network-timeout sentinel.
TimeoutPolicy(e) ==
    IF Holds(e, DeadlineExceeded) THEN FALSE
    ELSE IF KindAt(e, "TimeoutError") # {}
         THEN TimeoutError_IsRetryable(<<FirstOfKind(e, "TimeoutError")>>)
    ELSE Holds(e, ErrNetworkTimeout)

C14_TimeoutPolicy ==
    (pc = "done" /\ err # <<>>) => verdict.timeout = TimeoutPolicy(err)

\* a wrapped TimeoutError over a deadline is not a retryable timeout
C14_Witness ==
    /\ pc = "done"
    /\ Len(err) = 3
    /\ err[1].kind = "withStack"
    /\ err[2].kind = "TimeoutError"
    /\ err[3] = DeadlineExceeded
    /\ ~verdict.timeout

\* C15: an error of a foreign type without the IsRetryable method, whose chain
\* holds no sentinel, no variant, no HTTPError, no network error and no
\* context condition, is not retryable, not transient and not permanent,
\* whatever its text.
Unknown(e) ==
    /\ e # <<>>
    /\ \A i \in 1..Len(e) : e[i].kind \in {"errorString", "leafError", "withStack"}
    /\ \A s \in Sentinels \cup {DeadlineExceeded, Canceled, ErrRetryExhausted} : ~Holds(e, s)

C15_UnknownIsFalse ==
    (pc = "done" /\ Unknown(err)) =>
        (~verdict.retryable /\ ~verdict.transient /\ ~verdict.permanent)

\* C15 as the code has it: such an error is never transient and never
\* permanent, and it is retryable exactly when its text, lower-cased, contains
\* "rate limit".
C15_UnknownIsFalseButForRateLimitText ==
    (pc = "done" /\ Unknown(err)) =>
        /\ ~verdict.transient
        /\ ~verdict.permanent
        /\ verdict.retryable = Contains(ToLower(ErrorText(err)), T_rate_limit)

\* the foreign error "API Rate Limit hit" is retryable by its text alone
C15_Witness ==
    /\ pc = "done"
    /\ Len(err) = 1
    /\ err[1].kind = "errorString"
    /\ err[1].msg = T_api_limit
    /\ verdict.retryable
    /\ ~verdict.transient
    /\ ~verdict.permanent

(***************************************************************************)
(* Vocabulary of the properties about options                              *)
(***************************************************************************)
\* the positions in opts of the options called name
Named(opts, name) == {i \in 1..Len(opts) : opts[i].name = name}

\* the last option called name in opts
LastNamed(opts, name) ==
    opts[CHOOSE i \in Named(opts, name) : \A j \in Named(opts, name) : j <= i]

\* the constructors of the eight variants
VariantConstructors ==
    {"NewHTTPError", "NewRateLimitError", "NewRetryableError", "NewTimeoutError",
     "NewValidationError", "NewProcessingError", "NewRetryableProcessingError",
     "NewNetworkError", "NewCircuitBreakerError"}

\* the caller gave a cause to the error under construction
CauseGiven ==
    /\ call.fn \in VariantConstructors
    /\ (Named(call.applied, "WithCause") # {} \/ call.cause # <<>>)

\* the cause the caller gave last
GivenCause ==
    IF Named(call.applied, "WithCause") # {}
    THEN LastNamed(call.applied, "WithCause").cause
    ELSE call.cause

\* C16: an error constructed by any of the eight variant constructors with a
\* cause c (positional for NewHTTPError, WithCause(c) otherwise) has c in its
\* cause field, and unwrapping the error reaches c.
C16_CauseIsKept ==
    CauseGiven =>
        /\ Tail(err) = GivenCause
        /\ \E i \in 1..Len(SubErrors(err)) : SubErrors(err)[i] = GivenCause

\* NewRetryableError("bad", "Fetch", 30s, WithCause(ErrRateLimited)) has no cause
C16_Lost ==
    /\ call.fn = "NewRetryableError"
    /\ call.applied = <<Option("WithCause", <<ErrRateLimited>>)>>
    /\ Tail(err) = <<>>
    /\ ~Is(err, ErrRateLimited)

\* the caller applied an option called name to the error
Configured(name) == Named(call.applied, name) # {}

\* the option called name that the caller applied last
LastOption(name) == LastNamed(call.applied, name)

\* C17: for every variant and every option that targets it (WithMessage on
\* all eight; WithOperation on Timeout, RateLimit, Processing, Network and
\* CircuitBreaker; WithItemID and WithRetryable on Processing; WithValue and
\* WithField on Validation; WithTransient on Network; WithState on
\* CircuitBreaker; WithStatusCode on HTTP) the field read back is the value
\* passed, and without the option NetworkError.IsTransient is true and
\* ProcessingError.Retryable is false.
C17_RoundTrip ==
    call.fn \in VariantConstructors =>
        LET n == Head(err)
            k == Head(err).kind
        IN  /\ Configured("WithMessage") => n.msg = LastOption("WithMessage").s
            /\ (/\ k \in {"TimeoutError", "RateLimitError", "ProcessingError",
                           "NetworkError", "CircuitBreakerError"}
                /\ Configured("WithOperation"))
                   => n.op = LastOption("WithOperation").s
            /\ (k = "ProcessingError" /\ Configured("WithItemID"))
                   => n.item = LastOption("WithItemID").s
            /\ k = "ProcessingError"
                   => n.flag = IF Configured("WithRetryable")
                               THEN LastOption("WithRetryable").b ELSE FALSE
            /\ (k = "ValidationError" /\ Configured("WithValue"))
                   => n.value = LastOption("WithValue").s
            /\ (k = "ValidationError" /\ Configured("WithField"))
                   => n.field = LastOption("WithField").s
            /\ k = "NetworkError"
                   => n.flag = IF Configured("WithTransient")
                               THEN LastOption("WithTransient").b ELSE TRUE
            /\ (k = "CircuitBreakerError" /\ Configured("WithState"))
                   => n.state = LastOption("WithState").s
            /\ (k = "HTTPError" /\ Configured("WithStatusCode"))
                   => n.code = LastOption("WithStatusCode").n

\* NewRetryableError("bad", "Fetch", 30s, WithMessage("call failed")) still
\* reads "bad"
C17_MessageLost ==
    /\ call.fn = "NewRetryableError"
    /\ call.applied = <<Option("WithMessage", T_failed)>>
    /\ Head(err).msg = T_bad

\* the types an option targets
Targets(name) ==
    CASE name = "WithCause" -> VariantKinds \ {"RetryError"}
      [] name = "WithMessage" -> VariantKinds \ {"RetryError"}
      [] name = "WithOperation" -> {"TimeoutError", "RateLimitError", "ProcessingError",
                                    "NetworkError", "CircuitBreakerError"}
      [] name \in {"WithItemID", "WithRetryable"} -> {"ProcessingError"}
      [] name \in {"WithValue", "WithField"} -> {"ValidationError"}
      [] name = "WithTransient" -> {"NetworkError"}
      [] name = "WithState" -> {"CircuitBreakerError"}
      [] name = "WithStatusCode" -> {"HTTPError"}
      [] name = "WithComponent" -> VariantKinds
      [] OTHER -> {}

\* C18: an option called on an error of a type it does not target leaves
\* every field of the error, its cause included, as it was.
C18_ForeignOptionIsNoOp ==
    (call.direct /\ Head(call.before).kind \notin Targets(call.opt.name))
        => err = call.before

\* WithStatusCode(500) called on a NetworkError that carries a cause
C18_Witness ==
    /\ call.direct
    /\ call.opt = Option("WithStatusCode", 500)
    /\ Head(call.before).kind = "NetworkError"
    /\ Tail(call.before) # <<>>
    /\ err = call.before

\* C19: every error made by NewRetryError satisfies Is(r, ErrRetryExhausted),
\* answers false from its IsRetryable method and is classified not retryable
\* by IsRetryable, also when its lastError is retryable; its Attempts,
\* MaxAttempts, LastError and AllErrors are the arguments of the call.
C19_RetryErrorIsFinal ==
    call.fn = "NewRetryError" =>
        /\ Is(err, ErrRetryExhausted)
        /\ ~RetryError_IsRetryable(err)
        /\ (pc # "build" => ~verdict.retryable)
        /\ Head(err).attempts = call.attempts
        /\ Head(err).max = call.maxAttempts
        /\ Tail(err) = call.lastError
        /\ Head(err).all = call.allErrors

\* a retry loop gave up after 2 of 5 attempts on a NetworkError that is
\* itself retryable
C19_Witness ==
    /\ call.fn = "NewRetryError"
    /\ pc = "done"
    /\ call.attempts = 2
    /\ call.maxAttempts = 5
    /\ call.lastError # <<>>
    /\ Head(call.lastError).kind = "NetworkError"
    /\ IsRetryable(call.lastError)
    /\ Tail(err) = call.lastError
    /\ ~verdict.retryable

\* C20: NewRetryError(a, m, last, all, WithOperation(op), WithComponent(c))
\* makes a RetryError whose Operation is op and whose Component is c; its
\* message contains "a/m" and "c/op", or op alone when no component is set.
C20_RetryErrorTakesOperation ==
    (call.fn = "NewRetryError" /\ Configured("WithOperation")) =>
        LET n == Head(err)
            op == LastOption("WithOperation").s
            counts == Digits(call.attempts) \o <<"/">> \o Digits(call.maxAttempts)
        IN  /\ n.op = op
            /\ Contains(ErrorText(err), counts)
            /\ IF Configured("WithComponent")
               THEN LET c == LastOption("WithComponent").s
                    IN  /\ n.comp = c
                        /\ Contains(ErrorText(err), c \o <<"/">> \o op)
               ELSE Contains(ErrorText(err), op)

\* NewRetryError(2, 3, nil, nil, WithOperation("Process"), WithComponent("worker"))
\* has no Operation
C20_OperationLost ==
    /\ call.fn = "NewRetryError"
    /\ call.attempts = 2
    /\ call.maxAttempts = 3
    /\ call.lastError = <<>>
    /\ call.applied = <<Option("WithOperation", T_process), Option("WithComponent", T_worker)>>
    /\ Head(err).op = <<>>
    /\ Head(err).comp = T_worker
    /\ ~Contains(ErrorText(err), T_process)

\* C21: the chain of a CircuitBreakerError holds the sentinel of its state:
\* ErrCircuitOpen for "open", ErrCircuitHalfOpen for "half-open", neither for
\* "closed"; with a cause set by WithCause the chain holds the cause too.
C21_StateSentinelInChain ==
    call.fn = "NewCircuitBreakerError" =>
        LET st == Head(err).state
        IN  /\ st = T_open => Is(err, ErrCircuitOpen)
            /\ st = T_half_open => Is(err, ErrCircuitHalfOpen)
            /\ st = T_closed => (~Is(err, ErrCircuitOpen) /\ ~Is(err, ErrCircuitHalfOpen))
            /\ Configured("WithCause") =>
                   \E i \in 1..Len(SubErrors(err)) :
                       SubErrors(err)[i] = LastOption("WithCause").cause

\* NewCircuitBreakerError("bad", "Fetch", "open") does not hold ErrCircuitOpen
C21_SentinelMissing ==
    /\ call.fn = "NewCircuitBreakerError"
    /\ call.applied = <<>>
    /\ Head(err).state = T_open
    /\ Unwrap(err) = <<>>
    /\ ~Is(err, ErrCircuitOpen)


\* what a call of fn on e returns when nothing else runs
Sequential(fn, e) ==
    CASE fn = "IsRetryable" -> IsRetryable(e)
      [] fn = "IsRetryableTimeout" -> IsRetryableTimeout(e)
      [] fn = "IsTransientError" -> IsTransientError(e)
      [] fn = "IsPermanentError" -> IsPermanentError(e)

\* C22: classification is read-only: however the calls of several processes
\* on one shared error interleave, the error stays as each call found it and
\* each call returns what a sequential call returns.
C22_ReadOnlyUnderInterleaving ==
    \A p \in Procs :
        LET c == procs.calls[p]
        IN  /\ c.stage # "idle" => err = c.seen
            /\ c.stage = "returned" => c.result = Sequential(c.fn, c.seen)

\* two calls on a shared NetworkError overlapped and both returned
C22_Witness ==
    /\ err # <<>>
    /\ Head(err).kind = "NetworkError"
    /\ \E p, q \in Procs :
          /\ p # q
          /\ procs.calls[p].stage = "returned"
          /\ procs.calls[p].overlapped
          /\ procs.calls[p].fn = "IsRetryable"
          /\ procs.calls[p].result
          /\ procs.calls[q].stage = "returned"
          /\ procs.calls[q].overlapped
          /\ procs.calls[q].fn = "IsRetryableTimeout"
          /\ ~procs.calls[q].result

\* C23: no error is classified both transient and permanent.
C23_TransientExcludesPermanent ==
    pc = "done" => ~(verdict.transient /\ verdict.permanent)

\* NewValidationError("bad", "email", WithCause(ErrRateLimited)) is both
C23_Both ==
    /\ pc = "done"
    /\ Len(err) = 2
    /\ err[1].kind = "ValidationError"
    /\ err[2] = ErrRateLimited
    /\ verdict.transient
    /\ verdict.permanent

\* C24: no error is classified both retryable and permanent.
C24_RetryableExcludesPermanent ==
    pc = "done" => ~(verdict.retryable /\ verdict.permanent)

\* ErrCircuitOpen is both
C24_Both ==
    /\ pc = "done"
    /\ err = <<ErrCircuitOpen>>
    /\ verdict.retryable
    /\ verdict.permanent

\* C25: every error classified transient is classified retryable.
C25_TransientIsRetryable ==
    pc = "done" => (verdict.transient => verdict.retryable)

\* NewNetworkError("bad", "Fetch", WithTransient(false)) is transient and not
\* retryable
C25_TransientOnly ==
    /\ pc = "done"
    /\ Len(err) = 1
    /\ err[1].kind = "NetworkError"
    /\ ~err[1].flag
    /\ verdict.transient
    /\ ~verdict.retryable

\* C26: every error classified a retryable timeout is classified retryable.
C26_TimeoutIsRetryable ==
    pc = "done" => (verdict.timeout => verdict.retryable)

\* NewTimeoutError("bad", "Fetch", 30s, WithCause(context.Canceled)) is a
\* retryable timeout and not retryable
C26_TimeoutOnly ==
    /\ pc = "done"
    /\ Len(err) = 2
    /\ err[1].kind = "TimeoutError"
    /\ err[2] = Canceled
    /\ verdict.timeout
    /\ ~verdict.retryable

\* err is Wrap(e, m) for some error e and message m
Wrapped == pc = "done" /\ err # <<>> /\ Head(err).kind = "withStack"

\* IsRetryable decides e by the text of its message: no context condition,
\* no error with an IsRetryable method and no retryable sentinel in the chain
DecidedByText(e) ==
    /\ ~Abandoned(e)
    /\ Capable(e) = {}
    /\ \A s \in RetryableSentinels : ~Holds(e, s)

\* C27: a Wrap layer, whatever its message, changes no verdict: each of the
\* four entry points answers for Wrap(e, m) as it answers for e.
C27_WrapChangesNothing ==
    Wrapped =>
        /\ verdict.retryable = IsRetryable(Tail(err))
        /\ verdict.timeout = IsRetryableTimeout(Tail(err))
        /\ verdict.transient = IsTransientError(Tail(err))
        /\ verdict.permanent = IsPermanentError(Tail(err))

\* C27 as the code has it: IsRetryableTimeout, IsTransientError and
\* IsPermanentError answer for Wrap(e, m) as for e, and so does IsRetryable
\* unless it decides e by the message text; then Wrap(e, m) is retryable
\* exactly when "m: " followed by the text of e, lower-cased, contains
\* "rate limit".
C27_WrapChangesOnlyTheText ==
    Wrapped =>
        /\ verdict.timeout = IsRetryableTimeout(Tail(err))
        /\ verdict.transient = IsTransientError(Tail(err))
        /\ verdict.permanent = IsPermanentError(Tail(err))
        /\ verdict.retryable =
              IF DecidedByText(Tail(err))
              THEN Contains(ToLower(Head(err).msg \o T_sep \o ErrorText(Tail(err))),
                            T_rate_limit)
              ELSE IsRetryable(Tail(err))

\* Wrap(fmt.Errorf("boom"), "rate limit") is retryable, fmt.Errorf("boom") is not
C27_Witness ==
    /\ Wrapped
    /\ Len(err) = 2
    /\ err[1].msg = T_rate_limit
    /\ err[2].kind = "errorString"
    /\ err[2].msg = T_boom
    /\ verdict.retryable
    /\ ~IsRetryable(Tail(err))

\* IsRetryable without its HTTPError step
IsRetryable_WithoutHTTPStep(e0) ==
    IF e0 = <<>> THEN FALSE
    ELSE IF Is(e0, DeadlineExceeded) \/ Is(e0, Canceled) THEN FALSE
    ELSE IF As(e0, RetryableTypes) # <<>>
         THEN Retryable_IsRetryable(As(e0, RetryableTypes))
    ELSE IF \/ Is(e0, ErrRateLimited)
            \/ Is(e0, ErrNetworkTimeout)
            \/ Is(e0, ErrServerError)
            \/ Is(e0, ErrConnectionError)
            \/ Is(e0, ErrDeadlock)
            \/ Is(e0, ErrCircuitOpen)
         THEN TRUE
    ELSE IF Contains(ToLower(ErrorText(e0)), T_rate_limit) THEN TRUE
    ELSE FALSE

\* the chain of e holds an HTTPError beneath an error with an IsRetryable method
HTTPErrorBeneath(e) ==
    \E i \in KindAt(e, "HTTPError") : \E j \in Capable(e) : j < i

\* C28: the HTTPError step of IsRetryable never decides: IsRetryable answers
\* as it would without the step, and for an HTTPError beneath another error
\* with an IsRetryable method (and no context condition in the chain) the
\* answer is the verdict of the first such error, not the status rule.
C28_HTTPStepNeverDecides ==
    pc = "done" =>
        /\ verdict.retryable = IsRetryable_WithoutHTTPStep(err)
        /\ (HTTPErrorBeneath(err) /\ ~Abandoned(err))
               => verdict.retryable = SelfReported(FirstCapable(err))

\* a ValidationError over a 500 HTTPError is not retryable
C28_Witness ==
    /\ pc = "done"
    /\ Len(err) = 2
    /\ err[1].kind = "ValidationError"
    /\ err[2].kind = "HTTPError"
    /\ err[2].code = 500
    /\ HTTPError_IsRetryable(Tail(err))
    /\ ~verdict.retryable

\* the two labels a ProcessingError renders
RetryableLabel ==
    <<"(", "r", "e", "t", "r", "y", "a", "b", "l", "e", ")">>
NotRetryableLabel ==
    <<"(", "n", "o", "t", " ", "r", "e", "t", "r", "y", "a", "b", "l", "e", ")">>

\* C29: the message of a ProcessingError contains "(retryable)" exactly when
\* its IsRetryable method answers true, and "(not retryable)" otherwise.
C29_LabelAgreesWithVerdict ==
    (err # <<>> /\ Head(err).kind = "ProcessingError") =>
        /\ Contains(ErrorText(err), RetryableLabel) = ProcessingError_IsRetryable(err)
        /\ Contains(ErrorText(err), NotRetryableLabel) = ~ProcessingError_IsRetryable(err)

\* NewProcessingError("bad", "Fetch", WithCause(ErrRateLimited)) is retryable
\* and says "(not retryable)"
C29_LabelDisagrees ==
    /\ Len(err) = 2
    /\ err[1].kind = "ProcessingError"
    /\ ~err[1].flag
    /\ err[2] = ErrRateLimited
    /\ ProcessingError_IsRetryable(err)
    /\ Contains(ErrorText(err), NotRetryableLabel)

\* C30: the chain of a RetryError is the RetryError and then
\* ErrRetryExhausted: its LastError is not reached by unwrapping, and the
\* four entry points all answer false for it whatever the LastError is.
C30_RetryErrorHidesLastError ==
    (pc = "done" /\ err # <<>> /\ Head(err).kind = "RetryError") =>
        /\ SubErrors(err) = <<err, <<ErrRetryExhausted>>>>
        /\ (Tail(err) # <<>> /\ Head(Tail(err)) # ErrRetryExhausted)
               => ~Is(err, Head(Tail(err)))
        /\ ~verdict.retryable
        /\ ~verdict.timeout
        /\ ~verdict.transient
        /\ ~verdict.permanent

\* a RetryError whose LastError is a ValidationError over context.Canceled is
\* not permanent
C30_Witness ==
    /\ pc = "done"
    /\ Len(err) = 3
    /\ err[1].kind = "RetryError"
    /\ err[2].kind = "ValidationError"
    /\ err[3] = Canceled
    /\ IsPermanentError(Tail(err))
    /\ ~verdict.permanent
    /\ ~verdict.retryable
====
